---- MODULE Spec2Model ----
(***************************************************************************)
(* hypnos: the idle-notification coordinator.                              *)
(*                                                                         *)
(* Execution contexts:                                                     *)
(*   - the Wayland dispatch loop (a blocking thread, main.rs wayland_run), *)
(*     which runs the wl_registry handler, apply_config and the            *)
(*     idle-notification handler;                                          *)
(*   - the command router (main.rs process_command), the single consumer   *)
(*     of the mpsc channel;                                                *)
(*   - the tasks process_command spawns (inhibit_sleep, run_command);      *)
(*   - the producers of the channel (file watcher, upower watcher, ...).   *)
(*                                                                         *)
(* The repository holds main.rs once and wayland.rs / types.rs twice.  The *)
(* handlers are modelled from the later pair (src/src/src/), whose         *)
(* registry entries carry a restore command and a battery gate; the        *)
(* reconciler and the router are modelled from src/src/main.rs.            *)
(***************************************************************************)
EXTENDS Integers, Sequences, FiniteSets, TLC

VARIABLES
    file,               \* the config file on disk: [ok, rules]
    overflow_checks,    \* build profile: TRUE = overflow checks on (debug)
    wl_seat,            \* State.wl_seat is Some
    idle_notifier,      \* State.idle_notifier is Some
    on_battery,         \* WaylandGlobals.on_battery : Option<bool>
    is_paused,          \* WaylandGlobals.is_paused
    notification_list,  \* HashMap<Uuid, (command, restore, req_battery, notification)>
    list_poisoned,      \* the notification_list mutex is poisoned
    notifications,      \* every ExtIdleNotificationV1 ever created, by handle
    nextUuid,           \* the calls of generate_uuid so far, plus one
    queue,              \* the mpsc channel of Request
    dispatch,           \* the dispatch thread: "running" | "panicked"
    router,             \* process_command: "running" | "panicked"
    IS_INHIBITED,       \* static AtomicBool
    INHIBIT_MANAGER,    \* static Mutex<Option<..>> is Some
    SURFACE,            \* static Mutex<Option<WlSurface>> is Some
    tasks,              \* the tasks inhibit_sleep spawned
    inhibitors,         \* every ZwpIdleInhibitorV1 ever created: destroy count
    ran,                \* history: the commands handed to run_command, in order
    trace,              \* history: the idle events looked up in the registry, in order
    built_from,         \* history: the rule list the registry was last built from
    last,               \* history: the last operation and what it did
    mutex,              \* the holder of each Mutex, or Free
    at,                 \* where each thread or task stands inside its handler
    calls,              \* history: the protocol calls of the last step, with the locks held
    children            \* the child processes run_command spawned, by status

vars == <<file, overflow_checks, wl_seat, idle_notifier, on_battery, is_paused,
          notification_list, list_poisoned, notifications, nextUuid, queue,
          dispatch, router, IS_INHIBITED, INHIBIT_MANAGER, SURFACE, tasks,
          inhibitors, ran, trace, built_from, last, mutex, at, calls, children>>

lock_vars == <<mutex, at, calls>>

reconcile_vars == <<notification_list, list_poisoned, notifications, nextUuid>>
inhibit_vars == <<IS_INHIBITED, tasks, inhibitors>>
globals_vars == <<on_battery, is_paused>>

-----------------------------------------------------------------------------
(* Bounds of the model *)

MaxRules == 2        \* longest rule list a config file holds
MaxUuid == 3         \* uuids generated over a run
MaxQueue == 2        \* requests the producers keep pending at once
MaxIdleEvents == 2   \* idle / resumed events dispatched over a run
MaxTasks == 2        \* inhibit tasks spawned over a run
MaxSends == 1        \* requests each watcher sends over a run
MaxLockEvents == 1   \* idle / resumed events of the lock-by-lock runs

(* Program constants *)

CHANNEL_CAPACITY == 32
MS_PER_SEC == 1000

-----------------------------------------------------------------------------
(* Option<T> *)

None == <<>>
Some(x) == <<x>>
is_some(o) == o # <<>>
unwrap_or(o, d) == IF o = <<>> THEN d ELSE o[1]

-----------------------------------------------------------------------------
(* i32 arithmetic of  (rule.timeout * 1000).try_into().unwrap()            *)
(* The product is computed in 16-bit limbs: hi * 65536 + lo.               *)

Limb == 2^16
HalfLimb == 2^15

\* |a| * 1000 as [hi, lo], exact
AbsTimesThousand(a) ==
    LET abs  == IF a < 0 THEN 0 - a ELSE a
        lo1k == (abs % Limb) * MS_PER_SEC
    IN  [hi |-> (abs \div Limb) * MS_PER_SEC + (lo1k \div Limb), lo |-> lo1k % Limb]

\* does a * 1000 fit an i32
FitsI32(a) ==
    LET p == AbsTimesThousand(a)
    IN  IF a >= 0 THEN p.hi < HalfLimb
        ELSE p.hi < HalfLimb \/ (p.hi = HalfLimb /\ p.lo = 0)

\* a * 1000 modulo 2^32, read as an i32 (wrapping_mul)
WrappingMul(a) ==
    LET p  == AbsTimesThousand(a)
        hw == p.hi % Limb
        hi == IF a >= 0 THEN hw
              ELSE IF p.lo = 0 THEN (Limb - hw) % Limb ELSE (Limb - 1) - hw
        lo == IF a >= 0 \/ p.lo = 0 THEN p.lo ELSE Limb - p.lo
    IN  IF hi >= HalfLimb THEN (hi - Limb) * Limb + lo ELSE hi * Limb + lo

\* rule.timeout * 1000 on i32: a panic with overflow checks on, else wrapping
MulThousand(a, checks) ==
    IF FitsI32(a) THEN [panic |-> FALSE, val |-> WrappingMul(a)]
    ELSE IF checks THEN [panic |-> TRUE, val |-> 0]
    ELSE [panic |-> FALSE, val |-> WrappingMul(a)]

\* i32 -> u32 : try_into().unwrap() panics on a negative value
TryIntoU32Unwrap(r) ==
    IF r.panic THEN r
    ELSE IF r.val < 0 THEN [panic |-> TRUE, val |-> 0]
    ELSE r

timeout_ms(timeout, checks) == TryIntoU32Unwrap(MulThousand(timeout, checks))

-----------------------------------------------------------------------------
(* Threads, tasks and the mutexes they take *)

Ctx(name, i) == <<name, i>>
Free == Ctx("free", 0)
DispatchThread == Ctx("dispatch", 0)
RouterTask == Ctx("router", 0)
InhibitTask(i) == Ctx("inhibit", i)

\* State.notification_list, State.globals, and the two statics
Mutexes == {"notification_list", "globals", "INHIBIT_MANAGER", "SURFACE"}

Pos(pc, arg) == [pc |-> pc, arg |-> arg]
Idle == Pos("idle", <<>>)

Acquire(m, c) == mutex' = [mutex EXCEPT ![m] = c]
Release(m) == mutex' = [mutex EXCEPT ![m] = Free]
Goto(name, pos) == at' = [at EXCEPT ![name] = pos]

\* the locks c holds
HeldBy(c) == {m \in Mutexes : mutex[m] = c}

\* a request of the Wayland protocol (or a flush of the connection) by c
\* while it holds the locks of held
ProtocolCall(name, c, held) == [call |-> name, by |-> c, holding |-> held]

-----------------------------------------------------------------------------
(* Rules and config files *)

IdleRule(t, a, r, b) == [timeout |-> t, actions |-> a, restore |-> r, on_battery_only |-> b]

RuleA    == IdleRule(1, "echoA", None, FALSE)
RuleB    == IdleRule(2, "echoB", Some("echoB-restore"), FALSE)
RuleLock == IdleRule(5, "lock", Some("unlock"), TRUE)
RuleBig  == IdleRule(4294968, "big", None, FALSE)
RuleZero == IdleRule(0, "zero", None, FALSE)
RuleNeg  == IdleRule(0 - 1, "neg", None, FALSE)

\* the rules the config files of the reconcile runs are written from
Rules == {RuleB, RuleLock, RuleBig}

RuleLists == UNION {[1..n -> Rules] : n \in 0..MaxRules}

Parsed(rs) == [ok |-> TRUE, rules |-> rs]
Unparseable == [ok |-> FALSE, rules |-> <<>>]
ConfigFiles == {Unparseable} \cup {Parsed(rs) : rs \in RuleLists}

\* timeout is an i32 field: serde accepts zero and negative values
UncheckedRules == {RuleB, RuleZero, RuleNeg}
UncheckedFiles ==
    {Parsed(rs) : rs \in UNION {[1..n -> UncheckedRules] : n \in 1..MaxRules}}

load_json_or_default(f) == Parsed(f.rules)

\* fs::read_to_string(path)? then serde_json::from_str(&content)?
load_json_config(f) == f

-----------------------------------------------------------------------------
(* Requests (types.rs Request) *)

Request(t, c, f) == [type |-> t, cmd |-> c, flag |-> f]
ReloadConfig == Request("ReloadConfig", "", FALSE)
RunCommand(c) == Request("RunCommand", c, FALSE)
OnBattery(b) == Request("OnBattery", "", b)
Inhibit == Request("Inhibit", "", FALSE)
DbEvent(name) == Request("DbEvent", name, FALSE)

try_send_front(q, r) == IF Len(q) < CHANNEL_CAPACITY THEN <<r>> \o q ELSE q

\* Sender::try_send: the request is dropped when the channel is full
try_send(q, r) == IF Len(q) < CHANNEL_CAPACITY THEN Append(q, r) ELSE q

-----------------------------------------------------------------------------
(* The notification registry *)

EmptyMap == <<>>
InsertNothing(m, k, v) == m
Insert(m, k, v) == [x \in (DOMAIN m) \cup {k} |-> IF x = k THEN v ELSE m[x]]

\* the tuple map.insert stores for a rule
NotificationEntry(rule, handle) ==
    [command |-> rule.actions, restore |-> rule.restore,
     req_battery |-> rule.on_battery_only, notification |-> handle]

\* idle_notifier.get_idle_notification(timeout, seat, qh, ctx)
get_idle_notification(ms, uuid) == [timeout |-> ms, uuid |-> uuid, destroyed |-> 0]

DestroyNone(map, objs) == objs

DestroyAllButOne(map, objs) ==
    LET handles == {map[k].notification : k \in DOMAIN map}
        spared  == IF handles = {} THEN {} ELSE {CHOOSE h \in handles : TRUE}
    IN  [h \in DOMAIN objs |->
            IF h \in handles \ spared
            THEN [objs[h] EXCEPT !.destroyed = @ + 1] ELSE objs[h]]

\* for (_, (_, notification)) in map.iter() { notification.destroy(); }
DestroyAll(map, objs) ==
    LET handles == {map[k].notification : k \in DOMAIN map}
    IN  [h \in DOMAIN objs |->
            IF h \in handles THEN [objs[h] EXCEPT !.destroyed = @ + 1] ELSE objs[h]]

recycle_uuid(n) == 1 + ((n - 1) % 2)

\* Uuid::new_v4(): the n-th call returns a value no earlier call returned
\* (122 random bits; a collision is taken not to happen)
generate_uuid(n) == n

\* for rule in rules { ... }  from rule i on; st = [map, objs, uuid, panicked]
\* st.uuid counts the calls of generate_uuid
RECURSIVE RegisterRules(_, _, _, _)
RegisterRules(rules, i, st, checks) ==
    IF i > Len(rules) \/ st.panicked THEN st
    ELSE LET rule == rules[i]
             uuid == generate_uuid(st.uuid)
             ms   == timeout_ms(rule.timeout, checks)
         IN  IF ms.panic
             THEN [st EXCEPT !.uuid = st.uuid + 1, !.panicked = TRUE]
             ELSE RegisterRules(rules, i + 1,
                    [map |-> Insert(st.map, uuid,
                                    NotificationEntry(rule, Len(st.objs) + 1)),
                     objs |-> Append(st.objs, get_idle_notification(ms.val, uuid)),
                     uuid |-> st.uuid + 1,
                     panicked |-> FALSE], checks)

\* history: the rule list of the last rebuild, and whether one rebuild (1) or
\* several in a row (2) used it
NotBuilt == [rules |-> None, times |-> 0]
BuiltAgain(b, rules) ==
    [rules |-> Some(rules), times |-> IF b.rules = Some(rules) THEN 2 ELSE 1]

NotReadyBoth(seat, notifier) == ~notifier /\ ~seat

\* state.idle_notifier.is_none() || state.wl_seat.is_none()
NotReady(seat, notifier) == ~notifier \/ ~seat

LastOf(op, outcome, id, sent) ==
    [op |-> op, outcome |-> outcome, id |-> id, sent |-> sent]

\* apply_config(state, config_path), the State holding seat and notifier
apply_config(seat, notifier) ==
    LET res == load_json_config(file) IN
    IF ~res.ok
    THEN /\ UNCHANGED <<reconcile_vars, dispatch, built_from>>
         /\ last' = LastOf("apply_config", "parse_error", 0, None)
    ELSE IF NotReady(seat, notifier)
    THEN /\ UNCHANGED <<reconcile_vars, dispatch, built_from>>
         /\ last' = LastOf("apply_config", "not_ready", 0, None)
    ELSE IF list_poisoned
    THEN /\ dispatch' = "panicked"
         /\ UNCHANGED <<reconcile_vars, built_from>>
         /\ last' = LastOf("apply_config", "panicked", 0, None)
    ELSE LET st == RegisterRules(res.rules, 1,
                     [map |-> EmptyMap,
                      objs |-> DestroyAll(notification_list, notifications),
                      uuid |-> nextUuid, panicked |-> FALSE], overflow_checks)
         IN  /\ notification_list' = st.map
             /\ notifications' = st.objs
             /\ nextUuid' = st.uuid
             /\ list_poisoned' = st.panicked
             /\ dispatch' = IF st.panicked THEN "panicked" ELSE "running"
             /\ built_from' = IF st.panicked THEN NotBuilt
                              ELSE BuiltAgain(built_from, res.rules)
             /\ last' = LastOf("apply_config", IF st.panicked THEN "panicked" ELSE "rebuilt", 0, None)

-----------------------------------------------------------------------------
(* The dispatch loop: wl_registry::Event::Global *)

Alive == router = "running"
Dispatching == Alive /\ dispatch = "running"
UuidsLeft == nextUuid + Len(file.rules) <= MaxUuid + 1

global_wl_seat ==
    /\ Dispatching
    /\ UuidsLeft
    /\ wl_seat' = TRUE
    /\ IF idle_notifier
       THEN apply_config(TRUE, idle_notifier)
       ELSE /\ UNCHANGED <<reconcile_vars, dispatch, built_from>>
            /\ last' = LastOf("bind", "wl_seat", 0, None)
    /\ UNCHANGED <<lock_vars, children, file, overflow_checks, idle_notifier, globals_vars, queue, router,
                   inhibit_vars, INHIBIT_MANAGER, SURFACE, ran, trace>>

global_ext_idle_notifier_v1 ==
    /\ Dispatching
    /\ UuidsLeft
    /\ idle_notifier' = TRUE
    /\ IF wl_seat
       THEN apply_config(wl_seat, TRUE)
       ELSE /\ UNCHANGED <<reconcile_vars, dispatch, built_from>>
            /\ last' = LastOf("bind", "ext_idle_notifier_v1", 0, None)
    /\ UNCHANGED <<lock_vars, children, file, overflow_checks, wl_seat, globals_vars, queue, router,
                   inhibit_vars, INHIBIT_MANAGER, SURFACE, ran, trace>>

\* event_queue.blocking_dispatch(&mut state)? returns Err: the closure of
\* spawn_blocking returns, and main has dropped its JoinHandle (let _ = ..)
blocking_dispatch_failed ==
    /\ Dispatching
    /\ dispatch' = "failed"
    /\ last' = LastOf("blocking_dispatch", "failed", 0, None)
    /\ UNCHANGED <<lock_vars, children, file, overflow_checks, wl_seat, idle_notifier, globals_vars,
                   reconcile_vars, queue, router, inhibit_vars, INHIBIT_MANAGER,
                   SURFACE, ran, trace, built_from>>

\* a direct call of the public apply_config on the dispatch thread
call_apply_config ==
    /\ Dispatching
    /\ UuidsLeft
    /\ apply_config(wl_seat, idle_notifier)
    /\ UNCHANGED <<lock_vars, children, file, overflow_checks, wl_seat, idle_notifier, globals_vars, queue,
                   router, inhibit_vars, INHIBIT_MANAGER, SURFACE, ran, trace>>

-----------------------------------------------------------------------------
(* Producers *)

\* the config file is rewritten; inotify MODIFY -> blocking_send(ReloadConfig)
FileModified(Files) ==
    /\ Alive
    /\ Len(queue) < MaxQueue
    /\ \E f \in Files : file' = f
    /\ queue' = Append(queue, ReloadConfig)
    /\ last' = LastOf("filewatcher", "sent", 0, None)
    /\ UNCHANGED <<lock_vars, children, overflow_checks, wl_seat, idle_notifier, globals_vars,
                   reconcile_vars, dispatch, router, inhibit_vars, INHIBIT_MANAGER,
                   SURFACE, ran, trace, built_from>>

filewatcher_run == FileModified(ConfigFiles)

\* dbus.rs upower_watcher: tx.send(Request::OnBattery(on_battery)).await
upower_watcher ==
    /\ Alive
    /\ Len(queue) < MaxQueue
    /\ \E b \in BOOLEAN : queue' = Append(queue, OnBattery(b))
    /\ last' = LastOf("upower_watcher", "sent", 0, None)
    /\ UNCHANGED <<lock_vars, children, file, overflow_checks, wl_seat, idle_notifier, globals_vars,
                   reconcile_vars, dispatch, router, inhibit_vars, INHIBIT_MANAGER,
                   SURFACE, ran, trace, built_from>>

\* dbus.rs logind_watcher: let _ = tx.send(Request::DbEvent(name)).await
logind_watcher ==
    /\ Alive
    /\ Len(queue) < MaxQueue
    /\ \E name \in {"Lock", "Unlock", "PrepareSleep", "Wakeup"} :
          queue' = Append(queue, DbEvent(name))
    /\ last' = LastOf("logind_watcher", "sent", 0, None)
    /\ UNCHANGED <<lock_vars, children, file, overflow_checks, wl_seat, idle_notifier, globals_vars,
                   reconcile_vars, dispatch, router, inhibit_vars, INHIBIT_MANAGER,
                   SURFACE, ran, trace, built_from>>

\* the watchers, one call of send at a time
Producers == {"filewatcher", "upower", "logind"}

\* what each watcher sends
RequestsOf(p) ==
    IF p = "filewatcher" THEN {ReloadConfig}
    ELSE IF p = "upower" THEN {OnBattery(b) : b \in BOOLEAN}
    ELSE {DbEvent(name) : name \in {"Lock", "Unlock"}}

\* a watcher sees an event and calls send: inotify MODIFY (main.rs:155), a
\* change of UPower's OnBattery (dbus.rs:16), a logind signal (dbus.rs:71)
watcher_event(p) ==
    /\ Alive
    /\ at[p].pc = "idle"
    /\ at[p].arg[1] < MaxSends
    /\ Goto(p, Pos("sending", <<at[p].arg[1] + 1>>))
    /\ last' = LastOf(p, "sending", 0, None)
    /\ UNCHANGED <<mutex, calls, children, file, overflow_checks, wl_seat,
                   idle_notifier, globals_vars, reconcile_vars, queue, dispatch,
                   router, inhibit_vars, INHIBIT_MANAGER, SURFACE, ran, trace,
                   built_from>>

\* tx.blocking_send(r) / tx.send(r).await: returns once the channel has a
\* free slot and the request is in it
send_returns(p) ==
    /\ Alive
    /\ at[p].pc = "sending"
    /\ Len(queue) < CHANNEL_CAPACITY
    /\ \E r \in RequestsOf(p) : queue' = Append(queue, r)
    /\ Goto(p, Pos("idle", at[p].arg))
    /\ last' = LastOf(p, "sent", 0, None)
    /\ UNCHANGED <<mutex, calls, children, file, overflow_checks, wl_seat,
                   idle_notifier, globals_vars, reconcile_vars, dispatch,
                   router, inhibit_vars, INHIBIT_MANAGER, SURFACE, ran, trace,
                   built_from>>

filewatcher_blocking_send == watcher_event("filewatcher") \/ send_returns("filewatcher")
upower_send == watcher_event("upower") \/ send_returns("upower")
logind_send == watcher_event("logind") \/ send_returns("logind")

-----------------------------------------------------------------------------
(* Writers of WaylandGlobals.on_battery and .is_paused.  The fields are    *)
(* declared in types.rs and read by the idle handler; nothing under src/   *)
(* writes them, so any write may happen at any time.                       *)

write_on_battery ==
    /\ Alive
    /\ \E b \in BOOLEAN : on_battery' = Some(b) /\ on_battery' # on_battery
    /\ last' = LastOf("write_on_battery", "", 0, None)
    /\ UNCHANGED <<lock_vars, children, file, overflow_checks, wl_seat, idle_notifier, is_paused,
                   reconcile_vars, queue, dispatch, router, inhibit_vars,
                   INHIBIT_MANAGER, SURFACE, ran, trace, built_from>>

write_is_paused ==
    /\ Alive
    /\ is_paused' = ~is_paused
    /\ last' = LastOf("write_is_paused", "", 0, None)
    /\ UNCHANGED <<lock_vars, children, file, overflow_checks, wl_seat, idle_notifier, on_battery,
                   reconcile_vars, queue, dispatch, router, inhibit_vars,
                   INHIBIT_MANAGER, SURFACE, ran, trace, built_from>>

-----------------------------------------------------------------------------
(* The dispatch loop: ext_idle_notification_v1 events (src/src/src/wayland.rs) *)

\* the uuids of the notification objects created so far, destroyed or not
KnownUuids == {notifications[h].uuid : h \in DOMAIN notifications}

MapGetOrAny(map, uuid) ==
    IF uuid \in DOMAIN map THEN Some(map[uuid])
    ELSE IF DOMAIN map = {} THEN None
    ELSE Some(map[CHOOSE k \in DOMAIN map : TRUE])

\* map.get(&ctx.uuid)
MapGet(map, uuid) == IF uuid \in DOMAIN map THEN Some(map[uuid]) ELSE None

BatteryGateDefaultsOn(req_battery, bat) == req_battery /\ ~unwrap_or(bat, TRUE)

\* *req_battery && !current_bat_state.unwrap_or(false)
BatteryGateBlocks(req_battery, bat) == req_battery /\ ~unwrap_or(bat, FALSE)

\* Idled: the command of the entry, unless the battery gate blocks it
idled_command(found, bat) ==
    IF found = None THEN None
    ELSE IF BatteryGateBlocks(found[1].req_battery, bat) THEN None
    ELSE Some(found[1].command)

resumed_ignored(found) == None

resumed_gated(found) ==
    IF found = None THEN None
    ELSE IF BatteryGateBlocks(found[1].req_battery, on_battery) THEN None
    ELSE found[1].restore

\* Resumed: if let Some((_, Some(restore_cmd), _, _)) = map.get(&ctx.uuid)
resumed_command(found) ==
    IF found = None THEN None ELSE found[1].restore

IdleEvent(kind, uuid) == [kind |-> kind, uuid |-> uuid]

PauseNeverReturns(paused) == FALSE

\* if state.globals.lock().unwrap().is_paused { return; }  (before the match)
PausedReturns(paused) == paused

\* Dispatch<ExtIdleNotificationV1, NotificationContext>::event
idle_notification_event(kind, uuid) ==
    /\ Dispatching
    /\ Len(trace) < MaxIdleEvents
    /\ uuid \in KnownUuids
    /\ IF PausedReturns(is_paused)
       THEN /\ UNCHANGED <<queue, dispatch, trace>>
            /\ last' = LastOf(kind, "paused", uuid, None)
       ELSE IF list_poisoned
       THEN /\ dispatch' = "panicked"
            /\ UNCHANGED <<queue, trace>>
            /\ last' = LastOf(kind, "panicked", uuid, None)
       ELSE LET found == MapGet(notification_list, uuid)
                cmd   == IF kind = "Idled" THEN idled_command(found, on_battery)
                         ELSE resumed_command(found)
            IN  /\ queue' = IF cmd = None THEN queue
                            ELSE try_send(queue, RunCommand(cmd[1]))
                /\ last' = LastOf(kind, IF found = None THEN "absent" ELSE "found",
                                  uuid, cmd)
                /\ trace' = Append(trace, IdleEvent(kind, uuid))
                /\ UNCHANGED dispatch
    /\ UNCHANGED <<lock_vars, children, file, overflow_checks, wl_seat, idle_notifier, globals_vars,
                   reconcile_vars, router, inhibit_vars, INHIBIT_MANAGER, SURFACE,
                   ran, built_from>>

idled == \E uuid \in 1..MaxUuid : idle_notification_event("Idled", uuid)
resumed == \E uuid \in 1..MaxUuid : idle_notification_event("Resumed", uuid)

-----------------------------------------------------------------------------
(* The dispatch loop: the globals the inhibitor needs *)

\* "zwp_idle_inhibit_manager_v1" => *INHIBIT_MANAGER.lock().unwrap() = Some(..)
global_zwp_idle_inhibit_manager_v1 ==
    /\ Dispatching
    /\ ~INHIBIT_MANAGER
    /\ INHIBIT_MANAGER' = TRUE
    /\ last' = LastOf("bind", "zwp_idle_inhibit_manager_v1", 0, None)
    /\ UNCHANGED <<lock_vars, children, file, overflow_checks, wl_seat, idle_notifier, globals_vars,
                   reconcile_vars, queue, dispatch, router, inhibit_vars, SURFACE,
                   ran, trace, built_from>>

\* "wl_compositor" => *SURFACE.lock().unwrap() = Some(surface)
global_wl_compositor ==
    /\ Dispatching
    /\ ~SURFACE
    /\ SURFACE' = TRUE
    /\ last' = LastOf("bind", "wl_compositor", 0, None)
    /\ UNCHANGED <<lock_vars, children, file, overflow_checks, wl_seat, idle_notifier, globals_vars,
                   reconcile_vars, queue, dispatch, router, inhibit_vars,
                   INHIBIT_MANAGER, ran, trace, built_from>>

-----------------------------------------------------------------------------
(* inhibit_sleep: the task tokio::spawn runs, one atomic access per step  *)

Task(pc, inhibitor) == [pc |-> pc, inhibitor |-> inhibitor]

SetTask(i, t) == tasks' = [tasks EXCEPT ![i] = t]

InhibitFrame ==
    UNCHANGED <<lock_vars, children, file, overflow_checks, wl_seat, idle_notifier, globals_vars,
                reconcile_vars, queue, dispatch, router, INHIBIT_MANAGER, SURFACE,
                ran, trace, built_from>>

InhibitNoLockFrame ==
    UNCHANGED <<file, overflow_checks, wl_seat, idle_notifier, globals_vars,
                reconcile_vars, queue, dispatch, router, INHIBIT_MANAGER, SURFACE,
                ran, trace, built_from>>

\* if IS_INHIBITED.load(Ordering::SeqCst) { return; }
inhibit_load(i) ==
    /\ Alive
    /\ tasks[i].pc = "load"
    /\ SetTask(i, Task(IF IS_INHIBITED THEN "returned" ELSE "store", None))
    /\ last' = LastOf("inhibit_load", IF IS_INHIBITED THEN "returned" ELSE "go", i, None)
    /\ UNCHANGED <<IS_INHIBITED, inhibitors>>
    /\ InhibitFrame

\* IS_INHIBITED.store(true, Ordering::SeqCst)
inhibit_store(i) ==
    /\ Alive
    /\ tasks[i].pc = "store"
    /\ IS_INHIBITED' = TRUE
    /\ SetTask(i, Task("create", None))
    /\ last' = LastOf("inhibit_store", "", i, None)
    /\ UNCHANGED inhibitors
    /\ InhibitFrame

CanCreateWithManagerOnly(manager, surface) == manager

\* if let Some(manager) = INHIBIT_MANAGER.. { if let Some(surface) = SURFACE.. {
CanCreateInhibitor(manager, surface) == manager /\ surface

\* manager.create_inhibitor(surface, ..) when both statics are Some; flush
inhibit_create(i) ==
    /\ Alive
    /\ tasks[i].pc = "create"
    /\ IF CanCreateInhibitor(INHIBIT_MANAGER, SURFACE)
       THEN /\ inhibitors' = Append(inhibitors, 0)
            /\ SetTask(i, Task("sleep", Some(Len(inhibitors) + 1)))
            /\ last' = LastOf("inhibit_create", "created", i, None)
       ELSE /\ UNCHANGED inhibitors
            /\ SetTask(i, Task("sleep", None))
            /\ last' = LastOf("inhibit_create", "none", i, None)
    /\ UNCHANGED IS_INHIBITED
    /\ InhibitFrame

\* sleep(TIMEOUT_SEC) elapses; if let Some(inhibitor) { inhibitor.destroy(); flush }
inhibit_destroy(i) ==
    /\ Alive
    /\ tasks[i].pc = "sleep"
    /\ inhibitors' = IF tasks[i].inhibitor = None THEN inhibitors
                     ELSE [inhibitors EXCEPT ![tasks[i].inhibitor[1]] = @ + 1]
    /\ SetTask(i, Task("clear", tasks[i].inhibitor))
    /\ last' = LastOf("inhibit_destroy", "", i, None)
    /\ UNCHANGED IS_INHIBITED
    /\ InhibitFrame

inhibit_clear_forgotten(i) ==
    /\ Alive
    /\ tasks[i].pc = "clear"
    /\ SetTask(i, Task("done", tasks[i].inhibitor))
    /\ last' = LastOf("inhibit_clear", "", i, None)
    /\ UNCHANGED <<IS_INHIBITED, inhibitors>>
    /\ InhibitFrame

\* IS_INHIBITED.store(false, Ordering::SeqCst)
inhibit_clear(i) ==
    /\ Alive
    /\ tasks[i].pc = "clear"
    /\ IS_INHIBITED' = FALSE
    /\ SetTask(i, Task("done", tasks[i].inhibitor))
    /\ last' = LastOf("inhibit_clear", "", i, None)
    /\ UNCHANGED inhibitors
    /\ InhibitFrame

inhibit_task ==
    \E i \in DOMAIN tasks :
        \/ inhibit_load(i)
        \/ inhibit_store(i)
        \/ inhibit_create(i)
        \/ inhibit_destroy(i)
        \/ inhibit_clear(i)

\* whoever sends Request::Inhibit on the channel
inhibit_requested ==
    /\ Alive
    /\ Len(queue) < MaxQueue
    /\ Len(tasks) + Len(queue) < MaxTasks
    /\ queue' = Append(queue, Inhibit)
    /\ last' = LastOf("inhibit_requested", "sent", 0, None)
    /\ UNCHANGED <<lock_vars, children, file, overflow_checks, wl_seat, idle_notifier, globals_vars,
                   reconcile_vars, dispatch, router, inhibit_vars, INHIBIT_MANAGER,
                   SURFACE, ran, trace, built_from>>

-----------------------------------------------------------------------------
(* The command router: process_command *)

run_command_awaits_child(ch) ==
    \A i \in DOMAIN ch : ch[i] \notin {"spawning", "running"}

\* run_command: tokio::spawn(async move { .. }); the JoinHandle is dropped and
\* the function returns, whatever the children spawned so far are doing
run_command_returned(ch) == TRUE

\* while let Some(event) = rx.recv().await { match event { .. } }
Receives(t) ==
    /\ Alive
    /\ run_command_returned(children)
    /\ queue # <<>>
    /\ Head(queue).type = t

process_ReloadConfig ==
    /\ Receives("ReloadConfig")
    /\ queue' = Tail(queue)
    /\ IF list_poisoned
       THEN /\ router' = "panicked"
            /\ UNCHANGED <<reconcile_vars, built_from>>
            /\ last' = LastOf("ReloadConfig", "panicked", 0, None)
       ELSE /\ notifications' = DestroyAll(notification_list, notifications)
            /\ notification_list' = EmptyMap
            /\ built_from' = NotBuilt
            /\ last' = LastOf("ReloadConfig", "cleaned", 0, None)
            /\ UNCHANGED <<list_poisoned, nextUuid, router>>
    /\ UNCHANGED <<lock_vars, children, file, overflow_checks, wl_seat, idle_notifier, globals_vars,
                   dispatch, inhibit_vars, INHIBIT_MANAGER, SURFACE, ran, trace>>

\* Request::RunCommand(cmd) => run_command(cmd).await
process_RunCommand ==
    /\ Receives("RunCommand")
    /\ queue' = Tail(queue)
    /\ ran' = Append(ran, Head(queue).cmd)
    /\ children' = Append(children, "spawning")
    /\ last' = LastOf("RunCommand", Head(queue).cmd, 0, None)
    /\ UNCHANGED <<lock_vars, file, overflow_checks, wl_seat, idle_notifier, globals_vars,
                   reconcile_vars, dispatch, router, inhibit_vars, INHIBIT_MANAGER,
                   SURFACE, trace, built_from>>

\* the task run_command spawned: a step changes the status of child i only
ChildStep(i, from, outcomes) ==
    /\ Alive
    /\ i \in DOMAIN children
    /\ children[i] = from
    /\ \E r \in outcomes :
          /\ children' = [children EXCEPT ![i] = r]
          /\ last' = LastOf("run_command", r, i, None)
    /\ UNCHANGED <<lock_vars, file, overflow_checks, wl_seat, idle_notifier,
                   globals_vars, reconcile_vars, queue, dispatch, router,
                   inhibit_vars, INHIBIT_MANAGER, SURFACE, ran, trace, built_from>>

\* match Command::new(&cmd_prog).args(args).spawn() { Ok(child) .. Err(e) .. }
child_spawn == \E i \in DOMAIN children :
    ChildStep(i, "spawning", {"running", "spawn_failed"})

\* match child.wait().await { Ok(status) => debug!(..), Err(e) => error!(..) }
child_wait == \E i \in DOMAIN children :
    ChildStep(i, "running", {"exited_zero", "exited_nonzero", "wait_failed"})

\* Request::OnBattery(state) => debug!("On Battery: {}", state)
process_OnBattery ==
    /\ Receives("OnBattery")
    /\ queue' = Tail(queue)
    /\ last' = LastOf("OnBattery", IF Head(queue).flag THEN "true" ELSE "false", 0, None)
    /\ UNCHANGED <<lock_vars, children, file, overflow_checks, wl_seat, idle_notifier, globals_vars,
                   reconcile_vars, dispatch, router, inhibit_vars, INHIBIT_MANAGER,
                   SURFACE, ran, trace, built_from>>

\* Request::DbEvent(event_name) => debug!("DBus event received: {}", ..)
process_DbEvent ==
    /\ Receives("DbEvent")
    /\ queue' = Tail(queue)
    /\ last' = LastOf("DbEvent", Head(queue).cmd, 0, None)
    /\ UNCHANGED <<lock_vars, children, file, overflow_checks, wl_seat, idle_notifier, globals_vars,
                   reconcile_vars, dispatch, router, inhibit_vars, INHIBIT_MANAGER,
                   SURFACE, ran, trace, built_from>>

\* Request::Inhibit => inhibit_sleep(): tokio::spawn(the task)
process_Inhibit ==
    /\ Receives("Inhibit")
    /\ queue' = Tail(queue)
    /\ tasks' = Append(tasks, Task("load", None))
    /\ last' = LastOf("Inhibit", "spawned", Len(tasks) + 1, None)
    /\ UNCHANGED <<lock_vars, children, file, overflow_checks, wl_seat, idle_notifier, globals_vars,
                   reconcile_vars, dispatch, router, IS_INHIBITED, inhibitors,
                   INHIBIT_MANAGER, SURFACE, ran, trace, built_from>>

-----------------------------------------------------------------------------

\* the files of the idle-event runs
ScenarioFiles == {Parsed(<<RuleA, RuleB>>), Parsed(<<RuleLock>>)}

filewatcher_scenario == FileModified(ScenarioFiles)

\* the state when the dispatch loop and the router start: the file watcher
\* runs from main.rs:291 on, so requests may already be pending
BootWith(Files, Queues) ==
    /\ file \in Files
    /\ overflow_checks \in BOOLEAN
    /\ wl_seat = FALSE
    /\ idle_notifier = FALSE
    /\ on_battery = None
    /\ is_paused = FALSE
    /\ notification_list = EmptyMap
    /\ list_poisoned = FALSE
    /\ notifications = <<>>
    /\ nextUuid = 1
    /\ queue \in Queues
    /\ dispatch = "running"
    /\ router = "running"
    /\ IS_INHIBITED = FALSE
    /\ INHIBIT_MANAGER = FALSE
    /\ SURFACE = FALSE
    /\ tasks = <<>>
    /\ inhibitors = <<>>
    /\ ran = <<>>
    /\ trace = <<>>
    /\ built_from = NotBuilt
    /\ last = LastOf("init", "", 0, None)
    /\ mutex = [m \in Mutexes |-> Free]
    /\ at = [c \in {"dispatch", "router"} |-> Idle]
           @@ [p \in {"filewatcher", "upower", "logind"} |-> Pos("idle", <<0>>)]
    /\ calls = {}
    /\ children = <<>>

Boot(Files) == BootWith(Files, {<<>>})

Init == Boot(ConfigFiles)

\* reconcile and reload
Next ==
    \/ global_wl_seat
    \/ global_ext_idle_notifier_v1
    \/ filewatcher_run
    \/ process_ReloadConfig

Spec == Init /\ [][Next]_vars

\* idle events, gates and commands
IdleInit == Boot(ScenarioFiles)

IdleNext ==
    \/ global_wl_seat
    \/ global_ext_idle_notifier_v1
    \/ idled
    \/ resumed
    \/ write_on_battery
    \/ write_is_paused
    \/ process_RunCommand

IdleSpec == IdleInit /\ [][IdleNext]_vars

\* the power-state request and the battery gate
PowerNext ==
    \/ global_wl_seat
    \/ global_ext_idle_notifier_v1
    \/ upower_watcher
    \/ process_OnBattery
    \/ idled
    \/ process_RunCommand

PowerSpec == IdleInit /\ [][PowerNext]_vars

\* idle events against reconciles and reloads
StaleNext ==
    \/ global_wl_seat
    \/ global_ext_idle_notifier_v1
    \/ filewatcher_scenario
    \/ process_ReloadConfig
    \/ idled
    \/ resumed
    \/ process_RunCommand

StaleSpec == IdleInit /\ [][StaleNext]_vars

\* reconcile and reload, with apply_config also called directly
ApplyNext ==
    \/ global_wl_seat
    \/ global_ext_idle_notifier_v1
    \/ filewatcher_run
    \/ process_ReloadConfig
    \/ call_apply_config

ApplySpec == Init /\ [][ApplyNext]_vars

\* the sleep inhibitor
InhibitNext ==
    \/ global_zwp_idle_inhibit_manager_v1
    \/ global_wl_compositor
    \/ inhibit_requested
    \/ process_Inhibit
    \/ inhibit_task

InhibitSpec == IdleInit /\ [][InhibitNext]_vars

\* the steps of the i-th task inhibit_sleep spawned
inhibit_step(i) ==
    /\ i \in DOMAIN tasks
    /\ \/ inhibit_load(i)
       \/ inhibit_store(i)
       \/ inhibit_create(i)
       \/ inhibit_destroy(i)
       \/ inhibit_clear(i)

\* the tokio runtime polls every spawned task and fires its timer, and the
\* router is woken for every pending request
InhibitFairSpec ==
    /\ InhibitSpec
    /\ \A i \in 1..MaxTasks : WF_vars(inhibit_step(i))
    /\ WF_vars(process_Inhibit)

\* the router against all its producers, each capability advertised once
RouterNext ==
    \/ ~wl_seat /\ global_wl_seat
    \/ ~idle_notifier /\ global_ext_idle_notifier_v1
    \/ filewatcher_scenario
    \/ upower_watcher
    \/ logind_watcher
    \/ idled
    \/ process_ReloadConfig
    \/ process_RunCommand
    \/ process_OnBattery
    \/ process_DbEvent

RouterSpec == IdleInit /\ [][RouterNext]_vars

\* idle events while the channel is full or one short of full
Backlog(n) == [i \in 1..n |-> ReloadConfig]
FullInit ==
    BootWith(ScenarioFiles, {Backlog(CHANNEL_CAPACITY - 1), Backlog(CHANNEL_CAPACITY)})

FullNext ==
    \/ global_wl_seat
    \/ global_ext_idle_notifier_v1
    \/ idled
    \/ resumed
    \/ process_ReloadConfig
    \/ process_RunCommand

FullSpec == FullInit /\ [][FullNext]_vars

-----------------------------------------------------------------------------
(* The same handlers, one lock operation per step.  A MutexGuard bound with  *)
(* let lives to the end of its block; the guard of a lock().unwrap() inside  *)
(* an expression lives to the end of the statement, and the guard in the     *)
(* scrutinee of an if-let to the end of the if-let.                          *)

Interfaces ==
    {"wl_seat", "ext_idle_notifier_v1", "zwp_idle_inhibit_manager_v1", "wl_compositor"}

\* the mutex the registry handler stores the bound global under
LockOfGlobal(g) ==
    IF g = "zwp_idle_inhibit_manager_v1" THEN "INHIBIT_MANAGER"
    ELSE IF g = "wl_compositor" THEN "SURFACE"
    ELSE "globals"

Bound(g) ==
    IF g = "wl_seat" THEN wl_seat
    ELSE IF g = "ext_idle_notifier_v1" THEN idle_notifier
    ELSE IF g = "zwp_idle_inhibit_manager_v1" THEN INHIBIT_MANAGER
    ELSE SURFACE

\* the mutex a thread standing at pos is about to lock, if any
WantedAt(pos) ==
    IF pos.pc = "store_global" THEN Some(LockOfGlobal(pos.arg[1]))
    ELSE IF pos.pc \in {"apply_lock", "list_lock", "reload_lock"}
         THEN Some("notification_list")
    ELSE IF pos.pc \in {"pause_check", "battery_lock"} THEN Some("globals")
    ELSE None

lock_order_by_task(i) ==
    IF i % 2 = 0 THEN <<"SURFACE", "INHIBIT_MANAGER">>
    ELSE <<"INHIBIT_MANAGER", "SURFACE">>

\* inhibit_sleep: INHIBIT_MANAGER.lock() in the if-let, SURFACE.lock() inside
inhibit_lock_order(i) == <<"INHIBIT_MANAGER", "SURFACE">>

\* the mutex the i-th inhibit task is about to lock, if any
WantedByTask(i) ==
    IF tasks[i].pc = "create" THEN Some(inhibit_lock_order(i)[1])
    ELSE IF tasks[i].pc = "lock_second" THEN Some(inhibit_lock_order(i)[2])
    ELSE None

StaticIsSome(m) == IF m = "INHIBIT_MANAGER" THEN INHIBIT_MANAGER ELSE SURFACE

\* history: which step of a handler ran last is not recorded
LockStep == LastOf("lock_step", "", 0, None)

CanLock(wanted) == wanted # None /\ mutex[wanted[1]] = Free

\* wl_registry::Event::Global: registry.bind, and state.wl_seat /
\* state.idle_notifier = Some(..); the store under a mutex comes next
registry_global(g) ==
    /\ Dispatching
    /\ at["dispatch"] = Idle
    /\ ~Bound(g)
    /\ UuidsLeft
    /\ wl_seat' = (wl_seat \/ g = "wl_seat")
    /\ idle_notifier' = (idle_notifier \/ g = "ext_idle_notifier_v1")
    /\ Goto("dispatch", Pos("store_global", <<g>>))
    /\ calls' = {ProtocolCall("bind", DispatchThread, HeldBy(DispatchThread))}
    /\ last' = LockStep
    /\ UNCHANGED <<mutex, children, file, overflow_checks, globals_vars,
                   reconcile_vars, queue, dispatch, router, inhibit_vars,
                   INHIBIT_MANAGER, SURFACE, ran, trace, built_from>>

\* state.globals.lock().unwrap().seat = Some(..) / *INHIBIT_MANAGER.lock()
\* .unwrap() = Some(..) / *SURFACE.lock().unwrap() = Some(surface); then, for
\* seat and notifier, the head of apply_config: parse and readiness
registry_store ==
    /\ Dispatching
    /\ at["dispatch"].pc = "store_global"
    /\ CanLock(WantedAt(at["dispatch"]))
    /\ LET g   == at["dispatch"].arg[1]
           res == load_json_config(file)
       IN  /\ INHIBIT_MANAGER' = (INHIBIT_MANAGER \/ g = "zwp_idle_inhibit_manager_v1")
           /\ SURFACE' = (SURFACE \/ g = "wl_compositor")
           /\ IF LockOfGlobal(g) = "globals" /\ res.ok /\ ~NotReady(wl_seat, idle_notifier)
              THEN Goto("dispatch", Pos("apply_lock", <<res.rules>>))
              ELSE Goto("dispatch", Idle)
           /\ last' = LockStep
    /\ calls' = {}
    /\ UNCHANGED <<mutex, children, file, overflow_checks, wl_seat,
                   idle_notifier, globals_vars, reconcile_vars, queue, dispatch,
                   router, inhibit_vars, ran, trace, built_from>>

\* let mut map = state.notification_list.lock().unwrap();
apply_config_lock ==
    /\ Dispatching
    /\ at["dispatch"].pc = "apply_lock"
    /\ CanLock(WantedAt(at["dispatch"]))
    /\ IF list_poisoned
       THEN /\ dispatch' = "panicked"
            /\ UNCHANGED <<mutex, at>>
       ELSE /\ Acquire("notification_list", DispatchThread)
            /\ Goto("dispatch", Pos("apply_destroy", at["dispatch"].arg))
            /\ UNCHANGED dispatch
    /\ last' = LockStep
    /\ calls' = {}
    /\ UNCHANGED <<children, file, overflow_checks, wl_seat, idle_notifier,
                   globals_vars, reconcile_vars, queue, router, inhibit_vars,
                   INHIBIT_MANAGER, SURFACE, ran, trace, built_from>>

\* for (..) in map.iter() { notification.destroy(); }  map.clear();
apply_config_destroy ==
    /\ Dispatching
    /\ at["dispatch"].pc = "apply_destroy"
    /\ notifications' = DestroyAll(notification_list, notifications)
    /\ notification_list' = EmptyMap
    /\ calls' =
          {ProtocolCall("destroy", DispatchThread, HeldBy(DispatchThread)) :
             k \in DOMAIN notification_list}
    /\ Goto("dispatch", Pos("apply_register", at["dispatch"].arg))
    /\ last' = LockStep
    /\ UNCHANGED <<mutex, children, file, overflow_checks, wl_seat, idle_notifier,
                   globals_vars, list_poisoned, nextUuid, queue, dispatch, router,
                   inhibit_vars, INHIBIT_MANAGER, SURFACE, ran, trace, built_from>>

\* for rule in rules { .. get_idle_notification .. map.insert .. }  Ok(())
apply_config_register ==
    /\ Dispatching
    /\ at["dispatch"].pc = "apply_register"
    /\ LET rules == at["dispatch"].arg[1]
           st == RegisterRules(rules, 1,
                   [map |-> notification_list, objs |-> notifications,
                    uuid |-> nextUuid, panicked |-> FALSE], overflow_checks)
       IN  /\ notification_list' = st.map
           /\ notifications' = st.objs
           /\ nextUuid' = st.uuid
           /\ list_poisoned' = st.panicked
           /\ dispatch' = IF st.panicked THEN "panicked" ELSE "running"
           /\ built_from' = IF st.panicked THEN NotBuilt
                            ELSE BuiltAgain(built_from, rules)
           /\ calls' =
                 {ProtocolCall("get_idle_notification", DispatchThread,
                               HeldBy(DispatchThread)) : i \in DOMAIN rules}
           /\ last' = LockStep
    /\ Release("notification_list")
    /\ Goto("dispatch", Idle)
    /\ UNCHANGED <<children, file, overflow_checks, wl_seat, idle_notifier,
                   globals_vars, queue, router, inhibit_vars, INHIBIT_MANAGER,
                   SURFACE, ran, trace>>

\* an ext_idle_notification_v1 event is dispatched to the handler
event_begin(kind, uuid) ==
    /\ Dispatching
    /\ at["dispatch"] = Idle
    /\ Len(trace) < MaxLockEvents
    /\ uuid \in KnownUuids
    /\ Goto("dispatch", Pos("pause_check", <<kind, uuid>>))
    /\ trace' = Append(trace, IdleEvent(kind, uuid))
    /\ last' = LockStep
    /\ calls' = {}
    /\ UNCHANGED <<mutex, children, file, overflow_checks, wl_seat,
                   idle_notifier, globals_vars, reconcile_vars, queue, dispatch,
                   router, inhibit_vars, INHIBIT_MANAGER, SURFACE, ran, built_from>>

\* if state.globals.lock().unwrap().is_paused { return; }
event_pause_check ==
    /\ Dispatching
    /\ at["dispatch"].pc = "pause_check"
    /\ CanLock(WantedAt(at["dispatch"]))
    /\ IF PausedReturns(is_paused)
       THEN Goto("dispatch", Idle)
       ELSE Goto("dispatch", Pos("list_lock", at["dispatch"].arg))
    /\ last' = LockStep
    /\ calls' = {}
    /\ UNCHANGED <<mutex, children, file, overflow_checks, wl_seat,
                   idle_notifier, globals_vars, reconcile_vars, queue, dispatch,
                   router, inhibit_vars, INHIBIT_MANAGER, SURFACE, ran, trace,
                   built_from>>

\* let map = state.notification_list.lock().unwrap(); map.get(&ctx.uuid):
\* Resumed, or Idled without an entry, ends here and drops the guard; Idled
\* with an entry goes on to lock globals with the guard alive
event_list_lock ==
    /\ Dispatching
    /\ at["dispatch"].pc = "list_lock"
    /\ CanLock(WantedAt(at["dispatch"]))
    /\ LET kind  == at["dispatch"].arg[1]
           uuid  == at["dispatch"].arg[2]
           found == MapGet(notification_list, uuid)
       IN  IF list_poisoned
           THEN /\ dispatch' = "panicked"
                /\ last' = LockStep
                /\ UNCHANGED <<mutex, at, queue>>
           ELSE IF kind = "Idled" /\ found # None
           THEN /\ Acquire("notification_list", DispatchThread)
                /\ Goto("dispatch", Pos("battery_lock", at["dispatch"].arg))
                /\ last' = LockStep
                /\ UNCHANGED <<queue, dispatch>>
           ELSE LET cmd == IF kind = "Resumed" THEN resumed_command(found) ELSE None
                IN  /\ queue' = IF cmd = None THEN queue
                                ELSE try_send(queue, RunCommand(cmd[1]))
                    /\ Goto("dispatch", Idle)
                    /\ last' = LockStep
                    /\ UNCHANGED <<mutex, dispatch>>
    /\ calls' = {}
    /\ UNCHANGED <<children, file, overflow_checks, wl_seat, idle_notifier,
                   globals_vars, reconcile_vars, router, inhibit_vars,
                   INHIBIT_MANAGER, SURFACE, ran, trace, built_from>>

\* let current_bat_state = state.globals.lock().unwrap().on_battery; the
\* gate; try_send; the guard of the list is dropped at the end of the arm
event_battery_lock ==
    /\ Dispatching
    /\ at["dispatch"].pc = "battery_lock"
    /\ CanLock(WantedAt(at["dispatch"]))
    /\ LET uuid == at["dispatch"].arg[2]
           cmd  == idled_command(MapGet(notification_list, uuid), on_battery)
       IN  /\ queue' = IF cmd = None THEN queue
                       ELSE try_send(queue, RunCommand(cmd[1]))
           /\ last' = LockStep
    /\ Release("notification_list")
    /\ Goto("dispatch", Idle)
    /\ calls' = {}
    /\ UNCHANGED <<children, file, overflow_checks, wl_seat, idle_notifier,
                   globals_vars, reconcile_vars, dispatch, router, inhibit_vars,
                   INHIBIT_MANAGER, SURFACE, ran, trace, built_from>>

\* the router is between two iterations of its loop
RouterIdle == at["router"] = Idle

\* Request::ReloadConfig => { debug!(..);
reload_begin ==
    /\ Receives("ReloadConfig")
    /\ RouterIdle
    /\ queue' = Tail(queue)
    /\ Goto("router", Pos("reload_lock", <<>>))
    /\ last' = LockStep
    /\ calls' = {}
    /\ UNCHANGED <<mutex, children, file, overflow_checks, wl_seat,
                   idle_notifier, globals_vars, reconcile_vars, dispatch, router,
                   inhibit_vars, INHIBIT_MANAGER, SURFACE, ran, trace, built_from>>

\* let mut map = self.notification_list.lock().unwrap();
reload_lock ==
    /\ Alive
    /\ at["router"].pc = "reload_lock"
    /\ CanLock(WantedAt(at["router"]))
    /\ IF list_poisoned
       THEN /\ router' = "panicked"
            /\ UNCHANGED <<mutex, at>>
       ELSE /\ Acquire("notification_list", RouterTask)
            /\ Goto("router", Pos("reload_destroy", <<>>))
            /\ UNCHANGED router
    /\ last' = LockStep
    /\ calls' = {}
    /\ UNCHANGED <<children, file, overflow_checks, wl_seat, idle_notifier,
                   globals_vars, reconcile_vars, queue, dispatch, inhibit_vars,
                   INHIBIT_MANAGER, SURFACE, ran, trace, built_from>>

\* for (..) in map.iter() { notification.destroy(); }  map.clear();
reload_destroy ==
    /\ Alive
    /\ at["router"].pc = "reload_destroy"
    /\ notifications' = DestroyAll(notification_list, notifications)
    /\ notification_list' = EmptyMap
    /\ built_from' = NotBuilt
    /\ calls' =
          {ProtocolCall("destroy", RouterTask, HeldBy(RouterTask)) :
             k \in DOMAIN notification_list}
    /\ Goto("router", Pos("reload_flush", <<>>))
    /\ last' = LockStep
    /\ UNCHANGED <<mutex, children, file, overflow_checks, wl_seat, idle_notifier,
                   globals_vars, list_poisoned, nextUuid, queue, dispatch, router,
                   inhibit_vars, INHIBIT_MANAGER, SURFACE, ran, trace>>

\* let _ = self.connection.flush(); info!(..); }  the guard is dropped here
reload_flush ==
    /\ Alive
    /\ at["router"].pc = "reload_flush"
    /\ calls' = {ProtocolCall("flush", RouterTask, HeldBy(RouterTask))}
    /\ Release("notification_list")
    /\ Goto("router", Idle)
    /\ last' = LockStep
    /\ UNCHANGED <<children, file, overflow_checks, wl_seat, idle_notifier,
                   globals_vars, reconcile_vars, queue, dispatch, router,
                   inhibit_vars, INHIBIT_MANAGER, SURFACE, ran, trace, built_from>>

\* the first lock of the task: if let Some(manager) = INHIBIT_MANAGER.lock()
\* .unwrap().as_ref() {   the guard lives as long as the if-let
inhibit_lock_first(i) ==
    /\ Alive
    /\ tasks[i].pc = "create"
    /\ CanLock(WantedByTask(i))
    /\ LET m == inhibit_lock_order(i)[1]
       IN  IF StaticIsSome(m)
           THEN /\ Acquire(m, InhibitTask(i))
                /\ SetTask(i, Task("lock_second", None))
                /\ last' = LockStep
           ELSE /\ UNCHANGED mutex
                /\ SetTask(i, Task("sleep", None))
                /\ last' = LockStep
    /\ calls' = {}
    /\ UNCHANGED <<at, children, IS_INHIBITED, inhibitors>>
    /\ InhibitNoLockFrame

\* let surface = SURFACE.lock().unwrap(); if let Some(surface) = .. {
\* create_inhibitor; flush }  both guards are dropped at the end of the if-let
inhibit_lock_second(i) ==
    /\ Alive
    /\ tasks[i].pc = "lock_second"
    /\ CanLock(WantedByTask(i))
    /\ LET first  == inhibit_lock_order(i)[1]
           second == inhibit_lock_order(i)[2]
           held   == HeldBy(InhibitTask(i)) \cup {second}
       IN  /\ IF StaticIsSome(second)
              THEN /\ inhibitors' = Append(inhibitors, 0)
                   /\ SetTask(i, Task("sleep", Some(Len(inhibitors) + 1)))
                   /\ calls' =
                         {ProtocolCall("create_inhibitor", InhibitTask(i), held),
                          ProtocolCall("flush", InhibitTask(i), held)}
                   /\ last' = LockStep
              ELSE /\ UNCHANGED inhibitors
                   /\ calls' = {}
                   /\ SetTask(i, Task("sleep", None))
                   /\ last' = LockStep
           /\ Release(first)
    /\ UNCHANGED <<at, children, IS_INHIBITED>>
    /\ InhibitNoLockFrame

\* the steps of the i-th inhibit task, the create taken lock by lock
inhibit_lock_step(i) ==
    \/ inhibit_load(i)
    \/ inhibit_store(i)
    \/ inhibit_lock_first(i)
    \/ inhibit_lock_second(i)
    \/ inhibit_destroy(i)
    \/ inhibit_clear(i)

\* every thread and task that takes a mutex, lock by lock
LockNext ==
    \/ \E g \in Interfaces : registry_global(g)
    \/ registry_store
    \/ apply_config_lock
    \/ apply_config_destroy
    \/ apply_config_register
    \/ \E kind \in {"Idled", "Resumed"}, uuid \in 1..MaxUuid : event_begin(kind, uuid)
    \/ event_pause_check
    \/ event_list_lock
    \/ event_battery_lock
    \/ filewatcher_blocking_send
    \/ inhibit_requested
    \/ reload_begin
    \/ reload_lock
    \/ reload_destroy
    \/ reload_flush
    \/ RouterIdle /\ process_Inhibit
    \/ RouterIdle /\ process_RunCommand
    \/ \E i \in DOMAIN tasks : inhibit_lock_step(i)

\* one file of one rule, which does not overflow in either build profile
LockInit == Boot({Parsed(<<RuleB>>)}) /\ overflow_checks

LockSpec == LockInit /\ [][LockNext]_vars

\* the router, the commands it runs and their children
CommandNext ==
    \/ ~wl_seat /\ global_wl_seat
    \/ ~idle_notifier /\ global_ext_idle_notifier_v1
    \/ idled
    \/ resumed
    \/ upower_watcher
    \/ process_RunCommand
    \/ process_OnBattery
    \/ child_spawn
    \/ child_wait

CommandSpec == IdleInit /\ [][CommandNext]_vars

\* the watchers against a channel that is full or one short of full
BlockNext ==
    \/ filewatcher_blocking_send
    \/ upower_send
    \/ logind_send
    \/ process_ReloadConfig
    \/ process_OnBattery
    \/ process_DbEvent

BlockSpec == FullInit /\ [][BlockNext]_vars

\* the dispatch loop losing its connection
TransportNext ==
    \/ global_wl_seat
    \/ global_ext_idle_notifier_v1
    \/ blocking_dispatch_failed
    \/ idled
    \/ resumed
    \/ process_RunCommand

TransportSpec == IdleInit /\ [][TransportNext]_vars

\* reconcile and reload of files whose timeouts are any i32
filewatcher_unchecked == FileModified(UncheckedFiles)

ValidationInit == Boot(UncheckedFiles)

ValidationNext ==
    \/ global_wl_seat
    \/ global_ext_idle_notifier_v1
    \/ filewatcher_unchecked
    \/ process_ReloadConfig

ValidationSpec == ValidationInit /\ [][ValidationNext]_vars

-----------------------------------------------------------------------------
(* Views used by the properties *)

\* a u32 as [hi, lo]
Limbs(v) == [hi |-> v \div Limb, lo |-> v % Limb]

\* what a registry entry says, without its identity
EntryView(map, objs, k) ==
    [command |-> map[k].command, restore |-> map[k].restore,
     req_battery |-> map[k].req_battery,
     ms |-> Limbs(objs[map[k].notification].timeout)]

\* what a rule asks for: timeout * 1000 exactly
RuleView(r) ==
    [command |-> r.actions, restore |-> r.restore, req_battery |-> r.on_battery_only,
     ms |-> AbsTimesThousand(r.timeout)]

\* the logical contents of a registry: how many entries say each thing
Logical(map, objs) ==
    LET views == {EntryView(map, objs, k) : k \in DOMAIN map}
    IN  [v \in views |-> Cardinality({k \in DOMAIN map : EntryView(map, objs, k) = v})]

LogicalOfRules(rules) ==
    LET views == {RuleView(rules[i]) : i \in DOMAIN rules}
    IN  [v \in views |-> Cardinality({i \in DOMAIN rules : RuleView(rules[i]) = v})]

Rebuilt == last.op = "apply_config" /\ last.outcome = "rebuilt"

-----------------------------------------------------------------------------
(* Properties *)

\* C1: after apply_config completes with the file parsed to R and seat and
\* notifier bound, the registry holds exactly Len(R) entries under distinct
\* uuids, and the entry made for rule i carries rule i's command and a live
\* notification created with timeout R[i].timeout * 1000 ms.
C1_ReconcileInstallsRules ==
    Rebuilt =>
        LET R == file.rules IN
        /\ Cardinality(DOMAIN notification_list) = Len(R)
        /\ \A i \in 1..Len(R) :
            LET id == nextUuid - Len(R) + i - 1 IN
            /\ id \in DOMAIN notification_list
            /\ notification_list[id].command = R[i].actions
            /\ notifications[notification_list[id].notification].uuid = id
            /\ notifications[notification_list[id].notification].destroyed = 0
            /\ R[i].timeout >= 0
            /\ Limbs(notifications[notification_list[id].notification].timeout)
                 = AbsTimesThousand(R[i].timeout)

\* C2: handling ReloadConfig while the config file does not parse leaves the
\* registry as it was and destroys no notification.
C2_UnparseableReloadPreserves ==
    [][(last'.op = "ReloadConfig" /\ ~load_json_config(file).ok)
          => (notification_list' = notification_list /\ notifications' = notifications)]_vars

\* C3: once the router has handled ReloadConfig for a file that parses to R,
\* with seat and notifier bound and nothing left pending, the registry's
\* logical contents (commands, gates, timeouts) are those of R.
C3_ReloadInstallsRules ==
    (/\ last.op = "ReloadConfig"
     /\ last.outcome = "cleaned"
     /\ load_json_config(file).ok
     /\ wl_seat /\ idle_notifier
     /\ queue = <<>>)
        => Logical(notification_list, notifications) = LogicalOfRules(file.rules)

\* C9 (leak-free): a notification is destroyed at most once, and it has been
\* destroyed exactly when it is no longer the handle of its registry entry.
C9_NoLeak ==
    \A h \in DOMAIN notifications :
        LET n == notifications[h] IN
        /\ n.destroyed <= 1
        /\ (n.destroyed = 0) <=>
              (/\ n.uuid \in DOMAIN notification_list
               /\ notification_list[n.uuid].notification = h)

\* C9 (idempotent): a rebuild from the rule list the registry was built from
\* yields the same logical contents under fresh uuids, and destroys each
\* notification of the old registry once.
C9_SameRulesSameContents ==
    (/\ last'.op = "apply_config"
     /\ last'.outcome = "rebuilt"
     /\ built_from.rules = Some(file.rules))
        => /\ Logical(notification_list', notifications')
                = Logical(notification_list, notifications)
           /\ (DOMAIN notification_list') \cap (DOMAIN notification_list) = {}
           /\ \A k \in DOMAIN notification_list :
                LET h == notification_list[k].notification IN
                /\ notifications[h].destroyed = 0
                /\ notifications'[h].destroyed = 1

\* C9: reconcile is idempotent in effect and leak-free, over every sequence
\* of reconciles and reloads.
C9_ReconcileIdempotentLeakFree ==
    [](C9_NoLeak) /\ [][C9_SameRulesSameContents]_vars

\* C9 witness: the same non-empty rule list has been applied twice in a row
C9_Witness ==
    /\ Rebuilt
    /\ built_from.times = 2
    /\ Len(file.rules) > 0
    /\ \E h \in DOMAIN notifications : notifications[h].destroyed = 1

\* C10: apply_config run while seat or notifier is absent returns normally,
\* destroys no notification, creates none and leaves the registry unchanged.
C10_NotReadyIsNoOp ==
    [][(last'.op = "apply_config" /\ ~(wl_seat' /\ idle_notifier'))
          => /\ UNCHANGED <<notification_list, notifications, nextUuid, list_poisoned>>
             /\ dispatch' = "running"]_vars

\* C10 witness: apply_config has run on a parseable, non-empty file with
\* only one of seat and notifier bound
C10_Witness ==
    /\ last.op = "apply_config"
    /\ last.outcome = "not_ready"
    /\ wl_seat # idle_notifier
    /\ Len(file.rules) > 0

\* the inhibitors created and not yet destroyed
LiveInhibitors == {h \in DOMAIN inhibitors : inhibitors[h] = 0}

\* C4: request_inhibit is single-flight: however the Inhibit requests
\* interleave, at most one inhibitor is live at a time, and no inhibitor is
\* destroyed twice.
C4_SingleFlight ==
    /\ Cardinality(LiveInhibitors) <= 1
    /\ \A h \in DOMAIN inhibitors : inhibitors[h] <= 1

\* the commands of the RunCommand requests pending in the channel, in order
RECURSIVE PendingCommands(_)
PendingCommands(q) ==
    IF q = <<>> THEN <<>>
    ELSE IF Head(q).type = "RunCommand"
         THEN <<Head(q).cmd>> \o PendingCommands(Tail(q))
         ELSE PendingCommands(Tail(q))

\* the step is the dispatch of an Idled event for an entry of the registry
IdledFor(entry_gated) ==
    /\ last'.op = "Idled"
    /\ last'.id \in DOMAIN notification_list
    /\ notification_list[last'.id].req_battery = entry_gated

\* C5: an Idled event for a battery-gated entry enqueues RunCommand only if
\* on_battery is Some(true); with Some(false) or None nothing is enqueued.
\* An entry without the gate is enqueued whatever on_battery is.
C5_BatteryGate ==
    [][/\ (IdledFor(TRUE) /\ on_battery # Some(TRUE)) => queue' = queue
       /\ (IdledFor(TRUE) /\ queue' # queue) => on_battery = Some(TRUE)
       /\ (IdledFor(FALSE) /\ ~is_paused)
             => queue' = Append(queue, RunCommand(notification_list[last'.id].command))
      ]_vars

\* C5 witness: a gated entry fired while on battery
C5_Witness ==
    /\ last.op = "Idled"
    /\ last.id \in DOMAIN notification_list
    /\ notification_list[last.id].req_battery
    /\ on_battery = Some(TRUE)
    /\ queue # <<>>
    /\ queue[Len(queue)] = RunCommand(notification_list[last.id].command)

\* C6: the router's handling of OnBattery(b) sets on_battery to Some(b), so
\* that an Idled event for a battery-gated entry right after OnBattery(true)
\* enqueues exactly one RunCommand with the entry's command.
C6_PowerStateApplied ==
    [][/\ last'.op = "OnBattery" => on_battery' = Some(Head(queue).flag)
       /\ (/\ last.op = "OnBattery" /\ last.outcome = "true"
           /\ IdledFor(TRUE) /\ ~is_paused)
             => queue' = Append(queue, RunCommand(notification_list[last'.id].command))
      ]_vars

\* C7: an Idled or Resumed event whose uuid is not a key of the registry
\* enqueues nothing, changes no state and leaves the dispatch loop running.
C7_AbsentIdentityIgnored ==
    [][(last'.op \in {"Idled", "Resumed"} /\ last'.id \notin DOMAIN notification_list)
          => /\ UNCHANGED <<queue, reconcile_vars, globals_vars, ran, router>>
             /\ dispatch' = "running"]_vars

\* C7 witness: an Idled event was looked up for a destroyed notification
\* while a later registry was installed
C7_Witness ==
    /\ last.op = "Idled"
    /\ last.outcome = "absent"
    /\ DOMAIN notification_list # {}
    /\ \E h \in DOMAIN notifications :
          notifications[h].uuid = last.id /\ notifications[h].destroyed = 1

\* the registry holds two entries, a without and b with a restore command
TwoRulesLoaded(a, b) ==
    /\ DOMAIN notification_list = {a, b}
    /\ a # b
    /\ notification_list[a].restore = None
    /\ notification_list[b].restore # None
    /\ ~notification_list[b].req_battery

-----------------------------------------------------------------------------
(* Properties of the capability order, the router and the channel *)

\* C11: with only one of seat and notifier advertised the registry is empty,
\* and in either arrival order the advertisement that completes the pair runs
\* apply_config in the same step, after which the registry holds one live
\* subscription per configured rule, with that rule's command.
C11_CompletingAdvertisementReconciles ==
    /\ [](~(wl_seat /\ idle_notifier) => notification_list = EmptyMap)
    /\ [][(wl_seat' /\ idle_notifier' /\ ~(wl_seat /\ idle_notifier))
            => /\ last'.op = "apply_config"
               /\ load_json_config(file).ok =>
                    LET R == file.rules IN
                    /\ Cardinality(DOMAIN notification_list') = Len(R)
                    /\ \A i \in 1..Len(R) :
                         LET id == nextUuid + i - 1 IN
                         /\ id \in DOMAIN notification_list'
                         /\ notification_list'[id].command = R[i].actions
                         /\ notifications'[notification_list'[id].notification].destroyed = 0
          ]_vars

\* the requests the router handles, by the name its handler leaves in last.op
RouterOps == {"ReloadConfig", "RunCommand", "OnBattery", "DbEvent", "Inhibit"}

\* s is t, or t with one element appended
ExtendsByAtMostOne(s, t) ==
    \/ s = t
    \/ Len(s) = Len(t) + 1 /\ SubSeq(s, 1, Len(t)) = t

\* C12: the router handles requests strictly in the order they were enqueued,
\* whoever produced them: a handler step always takes the oldest pending
\* request, every other step leaves the channel alone or appends at its end,
\* and so the commands run followed by the commands pending only ever grow
\* at the end.
C12_RouterFifo ==
    [][/\ last'.op \in RouterOps
            => /\ queue # <<>>
               /\ last'.op = Head(queue).type
               /\ queue' = Tail(queue)
       /\ last'.op \notin RouterOps => ExtendsByAtMostOne(queue', queue)
       /\ ExtendsByAtMostOne(ran' \o PendingCommands(queue'),
                             ran \o PendingCommands(queue))
      ]_vars

\* C12 witness: a command enqueued by the dispatch loop has been run while a
\* later request of another producer waits behind it
C12_Witness ==
    /\ last.op = "RunCommand"
    /\ ran # <<>>
    /\ queue # <<>>
    /\ Head(queue).type \in {"ReloadConfig", "OnBattery", "DbEvent"}

\* C13: when the idle handler decides to enqueue a RunCommand, the request
\* enters the channel, or else the failure is fatal to the dispatch loop; it
\* is never dropped with the process running on.
C13_FullQueueIsFatal ==
    [][(last'.op \in {"Idled", "Resumed"} /\ last'.sent # None)
          => \/ queue' = Append(queue, RunCommand(last'.sent[1]))
             \/ dispatch' # "running"
             \/ router' # "running"]_vars

\* C14: once blocking_dispatch has failed, the process is gone: the router
\* handles no further request.
C14_TransportFailureFatal ==
    [][dispatch = "failed" => last'.op \notin RouterOps]_vars

\* the handlers that run on the dispatch loop and touch protocol objects
DispatchOps == {"apply_config"}

\* C15: subscriptions and inhibitors are created and destroyed only by steps
\* of the dispatch loop, never by the router or a task it spawned.
C15_ProtocolObjectsOnDispatchOnly ==
    [][(notifications' # notifications \/ inhibitors' # inhibitors)
          => last'.op \in DispatchOps]_vars

-----------------------------------------------------------------------------
(* Properties of the inhibitor's degraded path, the pause flag and the registry *)

C17_PausedIdledIgnored ==
    [][(last'.op = "Idled" /\ is_paused /\ last'.id \in DOMAIN notification_list)
          => queue' = queue]_vars

\* C17 witness: a paused Idled event for an entry that is not battery-gated
C17_Witness ==
    /\ last.op = "Idled"
    /\ last.outcome = "paused"
    /\ is_paused
    /\ last.id \in DOMAIN notification_list
    /\ ~notification_list[last.id].req_battery

\* the step is the dispatch of a Resumed event for an entry of the registry
\* that has a restore command
ResumedWithRestore ==
    /\ last'.op = "Resumed"
    /\ last'.id \in DOMAIN notification_list
    /\ notification_list[last'.id].restore # None

LiveNotifications == {h \in DOMAIN notifications : notifications[h].destroyed = 0}

\* C19: every subscription created and not destroyed is the handle of exactly
\* one registry entry, and the subscription of every registry entry has not
\* been destroyed.
C19_RegistrySubscriptionInvariant ==
    /\ \A h \in LiveNotifications :
          Cardinality({k \in DOMAIN notification_list :
                          notification_list[k].notification = h}) = 1
    /\ \A k \in DOMAIN notification_list :
          notification_list[k].notification \in LiveNotifications

\* C19 witness: a registry rebuilt after an earlier one was destroyed, with
\* a ReloadConfig waiting for the router
C19_Witness ==
    /\ Rebuilt
    /\ DOMAIN notification_list # {}
    /\ LiveNotifications # DOMAIN notifications
    /\ queue # <<>>

\* the live subscriptions against the rule list applied last
C20_AtMostOnePerRule ==
    /\ built_from.rules # None
          => Cardinality(LiveNotifications) <= Len(built_from.rules[1])
    /\ (built_from = NotBuilt /\ ~list_poisoned) => LiveNotifications = {}
    /\ Cardinality(LiveNotifications) = Cardinality(DOMAIN notification_list)
    /\ \A g, h \in LiveNotifications :
          g # h => notifications[g].uuid # notifications[h].uuid

\* C20: the live subscriptions are never more than the rules of the list
\* applied last, none is left once the registry has been cleared, and no two
\* of them stand for the same rule (each belongs to its own registry entry).
C20_NoDuplicateSubscriptions ==
    /\ [](C20_AtMostOnePerRule)
    /\ [][(last'.op = "apply_config" /\ last'.outcome \in {"rebuilt", "panicked"})
            => Cardinality(LiveNotifications') <= Len(file.rules)]_vars

\* C20 witness: seat or notifier was advertised again with the rules
\* unchanged, and there is still one live subscription per rule
C20_Witness ==
    /\ Rebuilt
    /\ built_from.times = 2
    /\ Len(file.rules) > 0
    /\ Cardinality(LiveNotifications) = Len(file.rules)
    /\ Len(notifications) >= 2 * Len(file.rules)

-----------------------------------------------------------------------------
(* Properties of identities, timeouts, locks and termination *)

\* the step is the dispatch of an idle or resume event tagged with the uuid
\* of a subscription that has been destroyed
StaleEvent ==
    /\ last'.op \in {"Idled", "Resumed"}
    /\ \E h \in DOMAIN notifications :
          notifications[h].uuid = last'.id /\ notifications[h].destroyed > 0

\* no two subscriptions ever created carry the same uuid
C21_UuidsDistinct ==
    \A g, h \in DOMAIN notifications :
        g # h => notifications[g].uuid # notifications[h].uuid

\* C21: uuids are never reused over the life of the process: no two
\* subscriptions ever created, in the same or in different reconciles, carry
\* the same uuid, and so an idle or resume event tagged with the uuid of a
\* destroyed subscription matches no registry entry and enqueues no command.
C21_IdentitiesNeverReused ==
    /\ [](C21_UuidsDistinct)
    /\ [][StaleEvent
            => /\ last'.id \notin DOMAIN notification_list
               /\ last'.sent = None
               /\ queue' = queue]_vars

\* C21 witness: an event tagged with the uuid of a subscription destroyed by
\* a reconcile was dispatched while the entries of a later reconcile are
\* installed
C21_Witness ==
    /\ last.op \in {"Idled", "Resumed"}
    /\ \E h \in DOMAIN notifications :
          notifications[h].uuid = last.id /\ notifications[h].destroyed > 0
    /\ DOMAIN notification_list # {}
    /\ built_from.rules # None
    /\ Len(notifications) > Cardinality(DOMAIN notification_list)

\* the rule's timeout in milliseconds is a u32 the i32 product reaches
TimeoutRepresentable(rule) == rule.timeout >= 0 /\ FitsI32(rule.timeout)

\* C22: when a rule's timeout * 1000 overflows or leaves the u32 range,
\* apply_config skips that rule only: the registry it leaves holds the
\* subscriptions of exactly the other rules of the file, and the dispatch
\* loop keeps running.
C22_OverflowSkipsRuleOnly ==
    [][(/\ last'.op = "apply_config"
        /\ load_json_config(file).ok
        /\ wl_seat' /\ idle_notifier'
        /\ ~list_poisoned)
          => /\ dispatch' = "running"
             /\ Logical(notification_list', notifications')
                  = LogicalOfRules(SelectSeq(file.rules, TimeoutRepresentable))]_vars

\* the file holds a rule whose timeout is zero or negative
HasNonPositiveTimeout(f) == \E i \in DOMAIN f.rules : f.rules[i].timeout <= 0

\* C23: a rule whose timeout is zero or negative is rejected at parse time:
\* no subscription is ever created with a timeout of 0 ms, and a reconcile
\* of a file holding such a rule creates no subscription for it and leaves
\* the dispatch loop running.
C23_NonPositiveTimeoutRejected ==
    /\ [](\A h \in DOMAIN notifications : notifications[h].timeout > 0)
    /\ [][(last'.op = "apply_config" /\ HasNonPositiveTimeout(file))
            => /\ dispatch' = "running"
               /\ ~list_poisoned'
               /\ \A k \in DOMAIN notification_list' :
                     notification_list'[k].command \notin {"zero", "neg"}]_vars

\* C28: whenever an inhibitor is live, IS_INHIBITED is true: no interleaving
\* of inhibit tasks clears the flag while an inhibitor is still live.
C28_LiveInhibitorImpliesFlag ==
    LiveInhibitors # {} => IS_INHIBITED

\* C30: apply_config run while the config file is unreadable or unparseable
\* returns normally without destroying a subscription, creating one or
\* changing the registry, whether or not seat and notifier are both bound.
C30_ParseFailureIsNoOp ==
    [][(last'.op = "apply_config" /\ ~file.ok)
          => /\ UNCHANGED <<notification_list, notifications, nextUuid, list_poisoned>>
             /\ dispatch' = "running"]_vars

\* C30 witness: a capability was advertised again, with seat and notifier
\* bound and subscriptions installed, after the file became unparseable
C30_Witness ==
    /\ last.op = "apply_config"
    /\ last.outcome = "parse_error"
    /\ ~file.ok
    /\ wl_seat /\ idle_notifier
    /\ DOMAIN notification_list # {}
    /\ LiveNotifications # {}

\* the i-th task has set the flag and not yet cleared it
Accepted(i) == i \in DOMAIN tasks /\ tasks[i].pc \in {"create", "sleep", "clear"}

\* the i-th task is over, the flag is clear and its inhibitor is destroyed
Completed(i) ==
    /\ i \in DOMAIN tasks
    /\ tasks[i].pc = "done"
    /\ ~IS_INHIBITED
    /\ tasks[i].inhibitor # None => inhibitors[tasks[i].inhibitor[1]] > 0

\* C27: every Inhibit task that has set IS_INHIBITED runs to its end under
\* fair scheduling: its sleep elapses, the inhibitor it created is destroyed
\* and it clears the flag; and a request pending in the channel is handled
\* by the router whatever the tasks are doing.
C27_AcceptedInhibitCompletes ==
    /\ \A i \in 1..MaxTasks : Accepted(i) ~> Completed(i)
    /\ (queue # <<>>) ~> (last.op = "Inhibit")

\* C27 witness: the first task has run to its end and cleared the flag, and
\* the load of the second task then finds the flag clear and goes on
C27_Witness ==
    /\ Len(tasks) = 2
    /\ Completed(1)
    /\ tasks[1].inhibitor # None
    /\ last.op = "inhibit_load"
    /\ last.outcome = "go"
    /\ last.id = 2

\* one iteration of the router's loop, whatever the request
process_command_step ==
    \/ process_ReloadConfig
    \/ process_RunCommand
    \/ process_OnBattery
    \/ process_DbEvent
    \/ process_Inhibit

\* with a request pending, the router can take it
C26_RouterCanDequeue ==
    (Alive /\ queue # <<>>) => ENABLED process_command_step

\* C26: handling RunCommand does not make the router wait for the child:
\* with a request pending the router can always take it, whatever the
\* children spawned earlier are doing; and a spawn failure, an exit (zero or
\* not) or a failed wait of a child changes nothing but the child's status
\* and stops neither the router nor the dispatch loop.
C26_RunCommandDoesNotBlock ==
    /\ [](C26_RouterCanDequeue)
    /\ [][last'.op = "run_command"
            => /\ UNCHANGED <<reconcile_vars, globals_vars, inhibit_vars, queue, ran,
                              wl_seat, idle_notifier, file>>
               /\ router' = "running"
               /\ dispatch' = dispatch]_vars

\* C26 witness: the router has handled a request while a child spawned
\* earlier was still running and another had failed to spawn or exited
\* with a non-zero status
C26_Witness ==
    /\ last.op \in RouterOps
    /\ router = "running"
    /\ \E i \in DOMAIN children : children[i] = "running"
    /\ \E i \in DOMAIN children : children[i] \in {"spawn_failed", "exited_nonzero"}

\* C25: a watcher that finds the channel full does not wait for the router:
\* no watcher is ever inside send with no free slot in the channel.
C25_ProducersNeverWait ==
    \A p \in Producers : at[p].pc = "sending" => Len(queue) < CHANNEL_CAPACITY

\* C24: neither the notification-list lock nor the globals lock (nor any
\* other mutex) is held across a protocol call: every destroy, create, bind
\* and flush is made by a thread that holds no lock at that moment.
C24_NoLockAcrossProtocolCall ==
    \A c \in calls : c.holding = {}

\* the threads and tasks that take mutexes
Contexts == {DispatchThread, RouterTask} \cup {InhibitTask(i) : i \in DOMAIN tasks}

\* the mutex c is about to lock, if any
Wanted(c) ==
    IF c = DispatchThread THEN WantedAt(at["dispatch"])
    ELSE IF c = RouterTask THEN WantedAt(at["router"])
    ELSE WantedByTask(c[2])

\* c waits for a mutex that is held
Blocked(c) == Wanted(c) # None /\ mutex[Wanted(c)[1]] # Free
BlockedBy(c) == mutex[Wanted(c)[1]]

\* every member of S waits for a mutex held by a member of S
Deadlocked(S) == S # {} /\ \A c \in S : Blocked(c) /\ BlockedBy(c) \in S

\* C29: no set of threads and tasks is ever in a circular wait on the
\* notification-list, globals, INHIBIT_MANAGER and SURFACE mutexes (a thread
\* waiting for a mutex it holds itself included), and every held mutex is
\* held by a thread or task that is still running.
C29_DeadlockFree ==
    /\ \A S \in SUBSET Contexts : ~Deadlocked(S)
    /\ \A m \in Mutexes :
          /\ mutex[m] \in Contexts \cup {Free}
          /\ mutex[m] = DispatchThread => dispatch = "running"
          /\ mutex[m] = RouterTask => router = "running"

\* C29 witness: the router waits for the notification list, which the idle
\* handler holds while it goes on to lock the globals; at the same time one
\* inhibit task waits for a static another inhibit task holds
C29_Witness ==
    /\ Blocked(RouterTask)
    /\ BlockedBy(RouterTask) = DispatchThread
    /\ at["dispatch"].pc = "battery_lock"
    /\ \E i, j \in DOMAIN tasks :
          /\ i # j
          /\ Blocked(InhibitTask(i))
          /\ BlockedBy(InhibitTask(i)) = InhibitTask(j)
          /\ tasks[j].pc = "lock_second"
====
